---------------------------- MODULE Spec2Model ----------------------------
(***************************************************************************)
(* The contained-particle simulation of MindSimWeb, in its two variants:   *)
(*   - Mind / Mental (client/src/mindwebsite/classes): Mentals drifting    *)
(*     inside a scaled Mind, stepped by Mind.updatePhysics;                *)
(*   - the container+balls demo (SamskaraDemo / mentalFormationDemo): a    *)
(*     fixed container with equal balls, stepped by step(t).               *)
(*                                                                         *)
(* Numbers.  The code computes with JavaScript numbers.  The model         *)
(* computes with exact rationals <<n, d>> (d > 0, lowest terms).  Bodies   *)
(* are taken on the x axis: position (x,0,0), velocity (v,0,0).  Every     *)
(* operation of the code maps such bodies to such bodies when the random   *)
(* directions drawn lie on the x axis, and Math.sqrt(x*x) is |x|, so all   *)
(* square roots are exact.  A body is therefore a record of rationals      *)
(* holding the x components only.                                          *)
(*                                                                         *)
(* Randomness.  Math.random() is an input: each step receives a finite     *)
(* sequence of draws, consumed in call order (cyclically).                 *)
(*                                                                         *)
(* The module also holds the WebSocketClient of client/src/utils, with the *)
(* browser sockets it creates and the timers it sets, stepped by WsSpec.   *)
(***************************************************************************)
EXTENDS Integers, Sequences, FiniteSets, TLC

VARIABLES
    mode,       \* what this run holds: "mind" (one Mind, two Mentals),
                \* "shared" (two Minds, one Mental) or "demo" (the balls)
    mental,     \* Mental objects: id -> [position, velocity, radius, motionSpeed]
    mentals,    \* Mind.mentals: mind id -> sequence of Mental ids
    scale,      \* AbstractMind.scale: mind id -> rational
    balls,      \* demo: sequence of [position, vel]
    last,       \* the last operation and what it observed (history)
    steps,      \* updatePhysics and handleBoundaryCollision calls / demo
                \* frames so far (bounded)
    edits,      \* addMental, removeMental, clearMentals calls so far (bounded)
    rescales,   \* setScale calls so far (bounded)
    client,     \* the WebSocketClient: [ws, reconnectAttempts, connected,
                \* pendingMessages, listeners]
    sockets,    \* the WebSocket objects created: id -> readyState
    timers,     \* reconnect callbacks set with setTimeout and not yet run
    wire,       \* the messages handed to WebSocket.send, in order
    released,   \* disconnect() was called and connect() has not been called
                \* by the caller since; the sockets disconnect() closed
    note,       \* the last operation of the client and what it did (history)
    variables,  \* CodeParser.variables: name -> "mind", "mental" or "none"
    parsed,     \* the last parse call and what it returned (history)
    playground, \* the Playground: [minds, pendingMinds, variableToId]
    heard       \* the last message the Playground handled (history)

simvars == <<mode, mental, mentals, scale, balls, last, steps, edits, rescales>>
wsvars  == <<client, sockets, timers, wire, released, note>>
uivars  == <<variables, parsed, playground, heard>>
vars    == <<simvars, wsvars, uivars>>

---------------------------------------------------------------------------
(* Exact rational arithmetic standing for JavaScript number arithmetic.    *)

Abs(i) == IF i < 0 THEN -i ELSE i

RECURSIVE GCD(_, _)
GCD(a, b) == IF b = 0 THEN a ELSE GCD(b, a % b)

\* the rational n/d (d /= 0) in lowest terms with a positive denominator
R(n, d) ==
    LET g == GCD(Abs(n), Abs(d))
        s == IF d < 0 THEN -1 ELSE 1
    IN  <<(s * n) \div g, Abs(d) \div g>>

Zero == <<0, 1>>
One  == <<1, 1>>

\* denominators are reduced before multiplying, so that intermediate
\* products stay small
RAdd(a, b) ==
    LET g == GCD(a[2], b[2])
    IN  R(a[1] * (b[2] \div g) + b[1] * (a[2] \div g), (a[2] \div g) * b[2])
RNeg(a)    == <<-a[1], a[2]>>
RSub(a, b) == RAdd(a, RNeg(b))
RMul(a, b) ==
    LET g1 == GCD(Abs(a[1]), b[2])
        g2 == GCD(Abs(b[1]), a[2])
    IN  <<(a[1] \div g1) * (b[1] \div g2), (a[2] \div g2) * (b[2] \div g1)>>
\* 1/b; the code guards every division, so b = 0 is never evaluated (an
\* evaluation with b = 0 is an error and stops the model checker)
RInv(b) ==
    IF b[1] < 0 THEN <<-b[2], -b[1]>>
    ELSE IF b[1] > 0 THEN <<b[2], b[1]>>
    ELSE <<1 \div 0, 1>>
RDiv(a, b) == RMul(a, RInv(b))
RAbs(a)    == <<Abs(a[1]), a[2]>>
RLt(a, b)  ==
    LET g == GCD(a[2], b[2])
    IN  a[1] * (b[2] \div g) < b[1] * (a[2] \div g)
RLe(a, b)  == ~RLt(b, a)
RGt(a, b)  == RLt(b, a)
RGe(a, b)  == ~RLt(a, b)
RMax(a, b) == IF RLt(a, b) THEN b ELSE a
RMin(a, b) == IF RLt(b, a) THEN b ELSE a

\* Math.sqrt(x*x + 0*0 + 0*0)
Length(x) == RAbs(x)

\* the next value of the random source: draws are consumed in order
Draw(rnd, k) == rnd[(k % Len(rnd)) + 1]

---------------------------------------------------------------------------
(* Mind / Mental                                                           *)

Margin          == R(1, 100)     \* 0.01   boundary margin
InnerSlack      == R(5, 1000)    \* 0.005  in constrainMentalPosition
WallBounce      == R(95, 100)    \* bounceStrength 0.95 (boundary)
PairBounce      == R(9, 10)      \* bounceStrength 0.9  (handleCollision)
CenterSpread    == R(3, 10)      \* 0.3    random placement at the center
FramesPerSecond == R(60, 1)      \* speedMultiplier = deltaTime * 60

\* Mind.getRadius(): base radius is 1, multiplied by scale
getRadius(sc) == sc

\* A faulty normalize, for comparison: a non-zero velocity is left at its
\* magnitude instead of being rescaled to motionSpeed.
normalizeUnscaled(b, rnd, k) ==
    IF RGt(Length(b.velocity), Zero) \/ b.motionSpeed = Zero
    THEN [b |-> b, k |-> k]
    ELSE [b |-> [b EXCEPT !.velocity =
                    RMul(b.motionSpeed, R(Draw(rnd, k).dir, 1))],
          k |-> k + 1]

\* AbstractMental.normalizeVelocityToMotionSpeed on body b; k counts the
\* draws consumed so far.  On the x axis sin(phi)*cos(theta) is the drawn
\* direction, +1 or -1.
normalizeVelocityToMotionSpeed(b, rnd, k) ==
    LET x   == b.velocity
        mag == Length(x)
    IN  IF RGt(mag, Zero)
        THEN LET s == RDiv(b.motionSpeed, mag)
             IN  [b |-> [b EXCEPT !.velocity = RMul(x, s)], k |-> k]
        ELSE IF b.motionSpeed = Zero
        THEN [b |-> b, k |-> k]
        ELSE [b |-> [b EXCEPT !.velocity =
                        RMul(b.motionSpeed, R(Draw(rnd, k).dir, 1))],
              k |-> k + 1]

\* A faulty clamp, for comparison: a Mental beyond the bound is moved half
\* of the way back to it.
constrainHalfway(sc, b, rnd, k) ==
    LET maxDistance == RMax(RAdd(RMul(b.radius, sc), InnerSlack),
                            RSub(RSub(getRadius(sc), RMul(b.radius, sc)), Margin))
    IN  IF RGt(Length(RMul(b.position, sc)), maxDistance)
        THEN [b |-> [b EXCEPT !.position =
                        RMul(RAdd(@, RMul(RDiv(@, Length(@)),
                                          RDiv(maxDistance, sc))), R(1, 2))],
              k |-> k]
        ELSE [b |-> b, k |-> k]

\* Mind.constrainMentalPosition on body b of a Mind of scale sc
constrainMentalPosition(sc, b, rnd, k) ==
    LET mindRadius   == getRadius(sc)
        mentalRadius == RMul(b.radius, sc)
        maxDistance  == RMax(RAdd(mentalRadius, InnerSlack),
                             RSub(RSub(mindRadius, mentalRadius), Margin))
        worldX       == RMul(b.position, sc)
        distance     == Length(worldX)
    IN  IF RGt(distance, maxDistance) \/ distance = Zero
        THEN IF RGt(distance, Zero)
             THEN LET localDistance    == Length(b.position)
                      normalX          == IF RGt(localDistance, Zero)
                                          THEN RDiv(b.position, localDistance)
                                          ELSE One
                      localMaxDistance == RDiv(maxDistance, sc)
                  IN  [b |-> [b EXCEPT !.position =
                                  RMul(normalX, localMaxDistance)],
                       k |-> k]
             ELSE LET localMaxDistance == RDiv(maxDistance, sc)
                      d                == Draw(rnd, k)
                      randomRadius     == RMul(RMul(d.u, localMaxDistance),
                                               CenterSpread)
                      newX             == RMul(randomRadius, R(d.dir, 1))
                  IN  [b |-> [b EXCEPT !.position = newX], k |-> k + 1]
        ELSE [b |-> b, k |-> k]

\* A step in progress is a record w: w.m the Mental objects, w.k the draws
\* consumed, w.log what the step did so far.  The handlers below are written
\* in stages, each stage receiving the values the code has computed so far.

\* A faulty bounce, for comparison: the impulse is applied to the first
\* sphere only.
bounceOffFirstOnly(w, i, j, rnd, moved1, moved2, normalX, dotProduct) ==
    LET impulse  == RMul(dotProduct, RAdd(One, PairBounce))
        newVel1X == RAdd(moved1.velocity, RMul(impulse, normalX))
        n1 == normalizeVelocityToMotionSpeed(
                  [moved1 EXCEPT !.velocity = newVel1X], rnd, w.k)
        n2 == normalizeVelocityToMotionSpeed(moved2, rnd, n1.k)
    IN  [m   |-> [w.m EXCEPT ![i] = n1.b, ![j] = n2.b],
         k   |-> n2.k,
         log |-> Append(w.log,
                   [kind |-> "pair", i |-> i, j |-> j,
                    b1 |-> w.m[i], b2 |-> w.m[j], hit |-> TRUE,
                    bounce |-> TRUE,
                    raw1 |-> newVel1X, raw2 |-> moved2.velocity,
                    a1 |-> n1.b, a2 |-> n2.b])]

\* handleCollision, "only bounce if moving towards each other"
bounceOff(w, i, j, rnd, moved1, moved2, normalX, dotProduct) ==
    LET impulse  == RMul(dotProduct, RAdd(One, PairBounce))
        newVel1X == RAdd(moved1.velocity, RMul(impulse, normalX))
        newVel2X == RSub(moved2.velocity, RMul(impulse, normalX))
        n1 == normalizeVelocityToMotionSpeed(
                  [moved1 EXCEPT !.velocity = newVel1X], rnd, w.k)
        n2 == normalizeVelocityToMotionSpeed(
                  [moved2 EXCEPT !.velocity = newVel2X], rnd, n1.k)
    IN  [m   |-> [w.m EXCEPT ![i] = n1.b, ![j] = n2.b],
         k   |-> n2.k,
         log |-> Append(w.log,
                   [kind |-> "pair", i |-> i, j |-> j,
                    b1 |-> w.m[i], b2 |-> w.m[j], hit |-> TRUE,
                    bounce |-> TRUE, raw1 |-> newVel1X, raw2 |-> newVel2X,
                    a1 |-> n1.b, a2 |-> n2.b])]

\* A faulty resolver, for comparison: the impulse is applied whatever the
\* sign of the closing speed.
movedApartAlwaysBounce(w, i, j, rnd, moved1, moved2, normalX, dotProduct) ==
    bounceOff(w, i, j, rnd, moved1, moved2, normalX, dotProduct)

\* handleCollision, the spheres moved apart
movedApart(w, i, j, rnd, moved1, moved2, normalX, dotProduct) ==
    IF RLt(dotProduct, Zero)
    THEN bounceOff(w, i, j, rnd, moved1, moved2, normalX, dotProduct)
    ELSE [m   |-> [w.m EXCEPT ![i] = moved1, ![j] = moved2],
          k   |-> w.k,
          log |-> Append(w.log,
                    [kind |-> "pair", i |-> i, j |-> j,
                     b1 |-> w.m[i], b2 |-> w.m[j], hit |-> TRUE,
                     bounce |-> FALSE,
                     raw1 |-> moved1.velocity, raw2 |-> moved2.velocity,
                     a1 |-> moved1, a2 |-> moved2])]

\* A faulty separation, for comparison: each sphere is moved by a quarter of
\* the overlap instead of half of it.
separateQuarter(w, i, j, rnd, b1, b2, normalX, overlap) ==
    LET separationX == RMul(RMul(normalX, overlap), R(1, 4))
        relVelX     == RSub(b2.velocity, b1.velocity)
    IN  movedApart(w, i, j, rnd,
                   [b1 EXCEPT !.position = RSub(b1.position, separationX)],
                   [b2 EXCEPT !.position = RAdd(b2.position, separationX)],
                   normalX, RMul(relVelX, normalX))

\* A faulty separation, for comparison: the first sphere alone is moved, by
\* the whole overlap.
separateFirstOnly(w, i, j, rnd, b1, b2, normalX, overlap) ==
    LET separationX == RMul(normalX, overlap)
        relVelX     == RSub(b2.velocity, b1.velocity)
    IN  movedApart(w, i, j, rnd,
                   [b1 EXCEPT !.position = RSub(b1.position, separationX)],
                   b2, normalX, RMul(relVelX, normalX))

\* handleCollision, "collision detected - separate spheres"
separate(w, i, j, rnd, b1, b2, normalX, overlap) ==
    LET separationX == RMul(RMul(normalX, overlap), R(1, 2))
        relVelX     == RSub(b2.velocity, b1.velocity)
    IN  movedApart(w, i, j, rnd,
                   [b1 EXCEPT !.position = RSub(b1.position, separationX)],
                   [b2 EXCEPT !.position = RAdd(b2.position, separationX)],
                   normalX, RMul(relVelX, normalX))

\* A faulty test, for comparison: every pair of distinct centres is treated
\* as overlapping.
collisionTestAnyDistance(w, i, j, rnd, b1, b2, dx, distance, minDistance) ==
    IF RGt(distance, Zero)
    THEN separate(w, i, j, rnd, b1, b2, RDiv(dx, distance),
                  RSub(minDistance, distance))
    ELSE [m   |-> w.m,
          k   |-> w.k,
          log |-> Append(w.log,
                    [kind |-> "pair", i |-> i, j |-> j,
                     b1 |-> b1, b2 |-> b2, hit |-> FALSE, bounce |-> FALSE,
                     raw1 |-> b1.velocity, raw2 |-> b2.velocity,
                     a1 |-> b1, a2 |-> b2])]

\* handleCollision, "check if spheres are colliding"
collisionTest(w, i, j, rnd, b1, b2, dx, distance, minDistance) ==
    IF RLt(distance, minDistance) /\ RGt(distance, Zero)
    THEN separate(w, i, j, rnd, b1, b2, RDiv(dx, distance),
                  RSub(minDistance, distance))
    ELSE [m   |-> w.m,
          k   |-> w.k,
          log |-> Append(w.log,
                    [kind |-> "pair", i |-> i, j |-> j,
                     b1 |-> b1, b2 |-> b2, hit |-> FALSE, bounce |-> FALSE,
                     raw1 |-> b1.velocity, raw2 |-> b2.velocity,
                     a1 |-> b1, a2 |-> b2])]

\* Mind.handleCollision(mental i, mental j) within a step.  The entry logged
\* keeps both bodies before (b1, b2) and after (a1, a2), and the velocities
\* given to setVelocity before they are normalized (raw1, raw2).
handleCollision(w, i, j, rnd) ==
    LET dx == RSub(w.m[j].position, w.m[i].position)
    IN  collisionTest(w, i, j, rnd, w.m[i], w.m[j], dx, Length(dx),
                      RAdd(w.m[i].radius, w.m[j].radius))

\* handleBoundaryCollision, the velocity set (setVelocity) and normalized;
\* the entry logged keeps the Mental before and after, the normal, the normal
\* velocity vn and the velocity before the normalize (raw)
boundaryBounced(b, normalX, dotProduct, placed, newVelX, n) ==
    [b   |-> n.b,
     k   |-> n.k,
     log |-> <<[kind |-> "boundary", before |-> b, beyond |-> TRUE,
                normal |-> normalX, vn |-> dotProduct, raw |-> newVelX,
                after |-> n.b]>>]

\* handleBoundaryCollision, "always bounce off boundary": reflect an outward
\* velocity, otherwise set the velocity to its tangential part
boundaryBounce(b, rnd, k, normalX, dotProduct, placed, newVelX) ==
    boundaryBounced(b, normalX, dotProduct, placed, newVelX,
        normalizeVelocityToMotionSpeed(
            [placed EXCEPT !.velocity = newVelX], rnd, k))

\* handleBoundaryCollision, the sphere is at or beyond the boundary: the
\* position is set to normal * localMaxDistance
boundaryPlaced(b, rnd, k, normalX, dotProduct, localMaxDistance) ==
    boundaryBounce(b, rnd, k, normalX, dotProduct,
        [b EXCEPT !.position = RMul(normalX, localMaxDistance)],
        IF RGt(dotProduct, Zero)
        THEN RSub(b.velocity,
                  RMul(RMul(RAdd(One, WallBounce), dotProduct), normalX))
        ELSE RSub(b.velocity, RMul(dotProduct, normalX)))

boundaryNormal(sc, b, rnd, k, maxDistance, normalX) ==
    boundaryPlaced(b, rnd, k, normalX, RMul(b.velocity, normalX),
                   RDiv(maxDistance, sc))

\* Mind.handleBoundaryCollision on body b of a Mind of scale sc
handleBoundaryCollision(sc, b, rnd, k) ==
    LET maxDistance == RSub(RSub(getRadius(sc), RMul(b.radius, sc)), Margin)
    IN  IF RGe(Length(RMul(b.position, sc)), maxDistance)
        THEN boundaryNormal(sc, b, rnd, k, maxDistance,
                 IF RGt(Length(b.position), Zero)
                 THEN RDiv(b.position, Length(b.position)) ELSE One)
        ELSE [b   |-> b,
              k   |-> k,
              log |-> <<[kind |-> "boundary", before |-> b, beyond |-> FALSE,
                         normal |-> Zero, vn |-> Zero, raw |-> b.velocity,
                         after |-> b]>>]

\* updatePhysics, first forEach: the position committed and the entry logged
commitMental(w, i, b0, nextX, beyond, normalX, localMaxDistance, dotProduct, newVelX, n1) ==
    LET after == IF beyond
                 THEN [n1.b EXCEPT !.position = RMul(normalX, localMaxDistance)]
                 ELSE [b0 EXCEPT !.position = nextX]
    IN  [m   |-> [w.m EXCEPT ![i] = after],
         k   |-> IF beyond THEN n1.k ELSE w.k,
         log |-> Append(w.log,
                   [kind |-> "body", i |-> i, before |-> w.m[i],
                    start |-> b0, next |-> nextX, beyond |-> beyond,
                    limit |-> localMaxDistance, normal |-> normalX,
                    vn |-> dotProduct,
                    raw |-> IF beyond THEN newVelX ELSE b0.velocity,
                    after |-> after])]

\* updatePhysics, first forEach: "reflect only if heading outward", then
\* re-normalize
reflectMental(w, i, rnd, b0, nextX, beyond, normalX, localMaxDistance, dotProduct, newVelX) ==
    commitMental(w, i, b0, nextX, beyond, normalX, localMaxDistance, dotProduct, newVelX,
                 normalizeVelocityToMotionSpeed(
                     [b0 EXCEPT !.velocity = newVelX], rnd, w.k))

\* A faulty boundary test, for comparison: the velocity is never reflected.
boundaryTestKeepsVelocity(w, i, sc, rnd, b0, nextX, maxDistance, normalX) ==
    reflectMental(w, i, rnd, b0, nextX,
        RGt(Length(RMul(nextX, sc)), maxDistance),
        normalX, RDiv(maxDistance, sc), RMul(b0.velocity, normalX),
        b0.velocity)

\* updatePhysics, first forEach: the boundary test on the next position
boundaryTest(w, i, sc, rnd, b0, nextX, maxDistance, normalX) ==
    LET dotProduct == RMul(b0.velocity, normalX)
    IN  reflectMental(w, i, rnd, b0, nextX,
            RGt(Length(RMul(nextX, sc)), maxDistance),
            normalX, RDiv(maxDistance, sc), dotProduct,
            IF RGt(dotProduct, Zero)
            THEN RSub(b0.velocity,
                      RMul(RMul(RAdd(One, WallBounce), dotProduct), normalX))
            ELSE b0.velocity)

\* A faulty normal, for comparison: the normal is taken from the position
\* before the step instead of the next position.
integrateFromOldNormal(w, i, sc, mult, rnd, b0, nextX) ==
    boundaryTest(w, i, sc, rnd, b0, nextX,
        RSub(RSub(getRadius(sc), RMul(b0.radius, sc)), Margin),
        IF RGt(Length(b0.position), Zero)
        THEN RDiv(b0.position, Length(b0.position)) ELSE One)

\* updatePhysics, first forEach, after the opening normalize: w.k already
\* counts its draw and b0 is the Mental it left
integrateNormalized(w, i, sc, mult, rnd, b0, nextX) ==
    boundaryTest(w, i, sc, rnd, b0, nextX,
        RSub(RSub(getRadius(sc), RMul(b0.radius, sc)), Margin),
        IF RGt(Length(nextX), Zero) THEN RDiv(nextX, Length(nextX)) ELSE One)

\* Mind.updatePhysics, first forEach: one Mental (normalize, integrate,
\* boundary).  mult is speedMultiplier.  The entry logged keeps the Mental
\* before the step, after its opening normalize (start) and as committed
\* (after), the candidate position (next), the local limit, the normal, the
\* normal velocity vn and the velocity before the re-normalize (raw).
integrateStart(w, i, sc, mult, rnd, n0) ==
    integrateNormalized([w EXCEPT !.k = n0.k], i, sc, mult, rnd, n0.b,
        RAdd(n0.b.position, RMul(n0.b.velocity, mult)))

integrateMental(w, i, sc, mult, rnd) ==
    integrateStart(w, i, sc, mult, rnd,
                   normalizeVelocityToMotionSpeed(w.m[i], rnd, w.k))

\* Mind.updatePhysics, last forEach: constrainMentalPosition, then normalize
finalNormalize(w, i, n) ==
    [m   |-> [w.m EXCEPT ![i] = n.b],
     k   |-> n.k,
     log |-> Append(w.log, [kind |-> "final", i |-> i,
                            before |-> w.m[i], after |-> n.b])]

finalConstrained(w, i, rnd, c) ==
    finalNormalize(w, i, normalizeVelocityToMotionSpeed(c.b, rnd, c.k))

finalClamp(w, i, sc, rnd) ==
    finalConstrained(w, i, rnd,
                     constrainMentalPosition(sc, w.m[i], rnd, w.k))

RECURSIVE integrateAll(_, _, _, _, _, _)
integrateAll(w, ids, n, sc, mult, rnd) ==
    IF n > Len(ids) THEN w
    ELSE integrateAll(integrateMental(w, ids[n], sc, mult, rnd),
                      ids, n + 1, sc, mult, rnd)

\* for (i) for (j = i + 1 ..) handleCollision(mentals[i], mentals[j])
RECURSIVE collideAll(_, _, _, _, _)
collideAll(w, ids, i, j, rnd) ==
    IF i > Len(ids) THEN w
    ELSE IF j > Len(ids) THEN collideAll(w, ids, i + 1, i + 2, rnd)
    ELSE collideAll(handleCollision(w, ids[i], ids[j], rnd), ids, i, j + 1, rnd)

RECURSIVE finalAll(_, _, _, _, _)
finalAll(w, ids, n, sc, rnd) ==
    IF n > Len(ids) THEN w
    ELSE finalAll(finalClamp(w, ids[n], sc, rnd), ids, n + 1, sc, rnd)

\* Mind.updatePhysics(deltaTime) of a Mind with Mental ids `ids` and scale sc
\* (the Mind's mesh exists from its constructor on, so the early return on a
\* missing mesh is never taken)
updatePhysics(m, ids, sc, deltaTime, rnd) ==
    LET speedMultiplier == RMul(deltaTime, FramesPerSecond)
        w0 == [m |-> m, k |-> 0, log |-> <<>>]
        w1 == integrateAll(w0, ids, 1, sc, speedMultiplier, rnd)
        w2 == collideAll(w1, ids, 1, 2, rnd)
    IN  finalAll(w2, ids, 1, sc, rnd)

---------------------------------------------------------------------------
(* The container+balls demo (SamskaraDemo.tsx, mentalFormationDemo.js)      *)

containerRadius == R(9, 10)
ballRadius      == R(6, 100)
restitution     == R(1, 1)
damping         == R(1, 1)
maxSpeed        == R(12, 10)
minSpeed        == R(22, 100)
MaxDt           == R(33, 1000)   \* dt = Math.min((t - lastT) / 1000, 0.033)
NudgeBelow      == R(8, 100)     \* if (b.vel.dot(normal) > -0.08)
NudgeBy         == R(12, 100)    \*   b.vel.addScaledVector(normal, -0.12)

\* reflectVelocity(vel, normal, restitution): v' = v - (1 + e) * (v.n) * n
reflectVelocity(vel, normal, e) ==
    LET vn == RMul(vel, normal)
    IN  RSub(vel, RMul(normal, RMul(RAdd(One, e), vn)))

\* THREE.Vector3.normalize(): divideScalar(length() || 1)
normalize(x) ==
    LET len == Length(x)
    IN  RDiv(x, IF len = Zero THEN One ELSE len)

\* A frame in progress is a record w as above, w.m being the balls.

\* step(t), first loop: the ball written back and the entry logged
commitBall(w, i, reseed, vel2, next, beyond, limit, normal, vn, vel3, after) ==
    [m   |-> [w.m EXCEPT ![i] = after],
     k   |-> IF reseed THEN w.k + 1 ELSE w.k,
     log |-> Append(w.log,
               [kind |-> "body", i |-> i, before |-> w.m[i],
                start |-> [position |-> w.m[i].position, vel |-> vel2],
                next |-> next, beyond |-> beyond, limit |-> limit,
                normal |-> normal, vn |-> vn,
                raw |-> IF beyond THEN vel3 ELSE vel2,
                after |-> after])]

\* step(t), first loop: the inward nudge, if (b.vel.dot(normal) > -0.08)
nudgeBall(w, i, reseed, vel2, next, beyond, limit, normal, vn, vel3) ==
    commitBall(w, i, reseed, vel2, next, beyond, limit, normal, vn, vel3,
        IF beyond
        THEN [position |-> RMul(normal, limit),
              vel |-> IF RGt(RMul(vel3, normal), RNeg(NudgeBelow))
                      THEN RAdd(vel3, RMul(normal, RNeg(NudgeBy)))
                      ELSE vel3]
        ELSE [position |-> next, vel |-> vel2])

\* step(t), first loop: "collide with container wall (inside)"
wallBall(w, i, reseed, vel2, next, limit, normal, vn) ==
    nudgeBall(w, i, reseed, vel2, next, RGt(Length(next), limit), limit,
        normal, vn,
        IF RGt(vn, Zero) THEN reflectVelocity(vel2, normal, restitution)
        ELSE vel2)

\* step(t), first loop: b.mesh.position.addScaledVector(b.vel, dt)
moveBall(w, i, reseed, vel2, next) ==
    wallBall(w, i, reseed, vel2, next, RSub(containerRadius, ballRadius),
             normalize(next), RMul(vel2, normalize(next)))

\* step(t), first loop: the speed clamp on the damped velocity vel0 of speed
\* sp; the re-seed is tmp.set(random*2-1, random*2-1, random*2-1).normalize()
clampBall(w, i, dt, rnd, vel0, sp, vel2) ==
    moveBall(w, i, RLt(sp, minSpeed), vel2,
             RAdd(w.m[i].position, RMul(vel2, dt)))

dampBall(w, i, dt, rnd, vel0, sp) ==
    clampBall(w, i, dt, rnd, vel0, sp,
        IF RLt(sp, minSpeed)
        THEN RMul(normalize(R(Draw(rnd, w.k).dir, 1)), minSpeed)
        ELSE IF RGt(sp, maxSpeed) THEN RMul(vel0, RDiv(maxSpeed, sp))
        ELSE vel0)

\* step(t), first loop: one ball (speed clamp, integration, wall).  The
\* entry logged keeps the ball before and as written back (after), its
\* velocity when integrated (start.vel), the candidate position (next), the
\* normal, the normal velocity vn and the velocity before the nudge (raw).
stepBall(w, i, dt, rnd) ==
    dampBall(w, i, dt, rnd, RMul(w.m[i].vel, damping),
             Length(RMul(w.m[i].vel, damping)))

\* step(t), ball-ball collisions: the balls written back and the entry logged
commitPair(w, i, j, hit, bounce, a1, a2) ==
    [m   |-> [w.m EXCEPT ![i] = a1, ![j] = a2],
     k   |-> w.k,
     log |-> Append(w.log,
               [kind |-> "pair", i |-> i, j |-> j,
                b1 |-> w.m[i], b2 |-> w.m[j],
                hit |-> hit, bounce |-> bounce,
                raw1 |-> a1.vel, raw2 |-> a2.vel,
                a1 |-> a1, a2 |-> a2])]

\* step(t), ball-ball collisions: if (reln < 0) the equal-mass impulse
impulseBalls(w, i, j, a, b, n, push, reln, impulse) ==
    commitPair(w, i, j, TRUE, RLt(reln, Zero),
        [position |-> RAdd(a.position, RMul(n, RNeg(push))),
         vel |-> IF RLt(reln, Zero) THEN RAdd(a.vel, RNeg(impulse))
                 ELSE a.vel],
        [position |-> RAdd(b.position, RMul(n, push)),
         vel |-> IF RLt(reln, Zero) THEN RAdd(b.vel, impulse) ELSE b.vel])

\* step(t), ball-ball collisions: if (d > 0 && d < minD), push apart
pushBalls(w, i, j, a, b, n, push, reln) ==
    impulseBalls(w, i, j, a, b, n, push, reln,
        RMul(n, RMul(RMul(R(-1, 2), RAdd(One, restitution)), reln)))

overlapBalls(w, i, j, a, b, tmp, d, minD) ==
    IF RGt(d, Zero) /\ RLt(d, minD)
    THEN pushBalls(w, i, j, a, b, RMul(tmp, RDiv(One, d)),
                   RMul(RSub(minD, d), R(1, 2)),
                   RMul(RSub(b.vel, a.vel), RMul(tmp, RDiv(One, d))))
    ELSE commitPair(w, i, j, FALSE, FALSE, a, b)

\* step(t), ball-ball collisions: the pair (balls[i], balls[j])
collideBalls(w, i, j) ==
    overlapBalls(w, i, j, w.m[i], w.m[j],
                 RSub(w.m[j].position, w.m[i].position),
                 Length(RSub(w.m[j].position, w.m[i].position)),
                 RMul(ballRadius, R(2, 1)))

RECURSIVE stepBalls(_, _, _, _)
stepBalls(w, n, dt, rnd) ==
    IF n > Len(w.m) THEN w
    ELSE stepBalls(stepBall(w, n, dt, rnd), n + 1, dt, rnd)

RECURSIVE collideAllBalls(_, _, _)
collideAllBalls(w, i, j) ==
    IF i > Len(w.m) THEN w
    ELSE IF j > Len(w.m) THEN collideAllBalls(w, i + 1, i + 2)
    ELSE collideAllBalls(collideBalls(w, i, j), i, j + 1)

\* step(t) of the demo; gap is t - lastT in milliseconds
clampDt(gap) == RMin(RDiv(gap, R(1000, 1)), MaxDt)

step(bs, gap, rnd) ==
    collideAllBalls(
        stepBalls([m |-> bs, k |-> 0, log |-> <<>>], 1, clampDt(gap), rnd),
        1, 2)

---------------------------------------------------------------------------
(* Bounds and input sets                                                   *)

MaxSteps    == 1    \* updatePhysics / handleBoundaryCollision calls per run
MaxFrames   == 3    \* demo frames per run
MaxEdits    == 2    \* addMental / removeMental / clearMentals calls per run
MaxRescales == 1    \* setScale calls per run

MindIds   == {1, 2}
MentalIds == {1, 2}

\* options.position (x), options.scale (radius), options.motionSpeed
InitPositions == {Zero, R(17, 20), R(6, 5)}
Radii         == {R(1, 10), R(1, 2)}
Speeds        == {R(1, 10)}
Scales        == {R(1, 2), One, R(3, 2)}
Deltas        == {R(1, 60), R(1, 20), R(1, 6)}

\* one draw of the random source of a Mind: the direction on the x axis
\* (theta, phi) and the fraction Math.random() used for randomRadius
Draws    == [dir : {1, -1}, u : {R(1, 2)}]
RndSeqs  == [1..2 -> Draws]

\* the demo: initial x positions come from randomInsideSphere(0.81), initial
\* velocities from (Math.random()*2-1)*0.45; a normalized random vector on
\* the x axis is (1,0,0), (-1,0,0) or, for the zero vector, (0,0,0)
BallPositions == {R(81, 100), R(4, 5), Zero}
BallVels      == {R(9, 20), R(-9, 20), R(1, 10)}
Gaps          == {R(16, 1), R(50, 1)}
DemoDraws     == [dir : {1, -1, 0}, u : {Zero}]
DemoRndSeqs   == [1..2 -> DemoDraws]

NoMentals == [i \in MentalIds |->
                [position |-> Zero, velocity |-> Zero,
                 radius |-> Zero, motionSpeed |-> Zero]]

\* new Mental(options): velocity starts at 0 and the constructor calls
\* normalizeVelocityToMotionSpeed()
newMental(x, r, speed, d) ==
    normalizeVelocityToMotionSpeed(
        [position |-> x, velocity |-> Zero, radius |-> r, motionSpeed |-> speed],
        <<d>>, 0).b

\* the objects a run holds
LiveMinds   == IF mode \in {"mind", "single"} THEN {1} ELSE IF mode = "shared" THEN {1, 2} ELSE {}
LiveMentals == IF mode = "mind" THEN {1, 2} ELSE IF mode \in {"shared", "single"} THEN {1} ELSE {}

\* history: the last operation, its arguments, the entries it logged and the
\* number of random draws it consumed
Op(name, k, i, dt, w) ==
    [op |-> name, mind |-> k, id |-> i, dt |-> dt, log |-> w.log, k |-> w.k]

Quiet == [log |-> <<>>, k |-> 0]

Range(f) == {f[x] : x \in DOMAIN f}

includes(seq, i) == \E n \in 1..Len(seq) : seq[n] = i

\* Array.prototype.splice(indexOf(i), 1)
splice(seq, i) ==
    LET n == CHOOSE n \in 1..Len(seq) : seq[n] = i
    IN  [x \in 1..(Len(seq) - 1) |-> IF x < n THEN seq[x] ELSE seq[x + 1]]

---------------------------------------------------------------------------
(* WebSocketClient (client/src/utils/websocketClient.ts)                   *)

maxReconnectAttempts == 5

MaxSockets == 3     \* WebSocket objects created per run
MaxQueue   == 2     \* length of pendingMessages at a send() call
MaxWire    == 3     \* messages handed to WebSocket.send per run

SocketIds == 1..MaxSockets
NoSocket  == 0      \* this.ws = null

\* the messages given to send(); JSON.stringify throws on the cyclic one
Messages == {"m1", "m2", "cyclic"}
Serializable(message) == message # "cyclic"

\* the client after its constructor
WebSocketClient ==
    [ws |-> NoSocket, reconnectAttempts |-> 0, connected |-> FALSE,
     pendingMessages |-> <<>>, listeners |-> FALSE]

NoSockets == [s \in SocketIds |-> "unused"]

\* history of the client: the operation, the socket it concerns, the message
\* given, pendingMessages before it, the messages it handed to the socket
\* (sent) and those it gave up (lost), the events it emitted, whether it set a
\* reconnect timer and whether it never returned
Note(op, s, message, before, sent, lost, emits, scheduled, hung) ==
    [op |-> op, socket |-> s, message |-> message, before |-> before, sent |-> sent, lost |-> lost, emits |-> emits, scheduled |-> scheduled, hung |-> hung]

Silent == Note("init", NoSocket, "", <<>>, <<>>, <<>>, <<>>, FALSE, FALSE)

\* send(message), the test of its first line
canTransmit(c, socks) ==
    c.connected /\ c.ws # NoSocket /\ socks[c.ws] = "OPEN"

\* send(message): the client after the call, what went to the socket (sent)
\* and what was neither queued nor sent (lost)
send(c, socks, message) ==
    IF ~canTransmit(c, socks)
    THEN [c |-> [c EXCEPT !.pendingMessages = Append(@, message)],
          sent |-> <<>>, lost |-> <<>>, ok |-> FALSE]
    ELSE IF Serializable(message)
    THEN [c |-> c, sent |-> <<message>>, lost |-> <<>>, ok |-> TRUE]
    ELSE [c |-> c, sent |-> <<>>, lost |-> <<message>>, ok |-> FALSE]

\* onopen, one turn of the while loop: shift() and send()
drainOne(c, socks, w, r) ==
    [c |-> r.c, sent |-> w.sent \o r.sent, lost |-> w.lost \o r.lost]

\* onopen, the while loop over pendingMessages, for a client that can
\* transmit (every send() then leaves the queue shorter)
RECURSIVE drain(_, _, _)
drain(c, socks, w) ==
    IF Len(c.pendingMessages) = 0 THEN [w EXCEPT !.c = c]
    ELSE drain(
            drainOne(c, socks, w,
                send([c EXCEPT !.pendingMessages = Tail(@)], socks,
                     Head(c.pendingMessages))).c,
            socks,
            drainOne(c, socks, w,
                send([c EXCEPT !.pendingMessages = Tail(@)], socks,
                     Head(c.pendingMessages))))

\* onopen, the while loop never ends: every send() puts the message taken
\* from the queue back at its end
drainHangs(c, socks) ==
    Len(c.pendingMessages) > 0 /\ ~canTransmit(c, socks)

\* new WebSocket(wsUrl): the next object
unusedSocket(socks) ==
    CHOOSE s \in DOMAIN socks :
        socks[s] = "unused" /\ \A t \in DOMAIN socks : t < s => socks[t] # "unused"

---------------------------------------------------------------------------
(* CodeParser (client/src/utils/codeParser.ts and .js).  A line of code is *)
(* given by the branch of parse its text takes: form "mind" for            *)
(* `var = Mind()`, "mental" for `var = Mental()`, "attr" for               *)
(* `var.arg = value`, "add" for `var.add(arg)`, "other" for a text no      *)
(* pattern matches and "blank" for a text that trims to nothing.           *)

MaxLines  == 3      \* lines of the code given to parse
MaxParses == 2      \* parse calls per run

Names == {"a", "b"}

Lines ==
    [form : {"mind", "mental"}, var : Names, arg : {""}]
       \cup [form : {"attr"}, var : Names, arg : {"scale"}]
       \cup {[form |-> "add", var |-> "a", arg |-> "b"],
             [form |-> "add", var |-> "b", arg |-> "a"],
             [form |-> "other", var |-> "", arg |-> ""],
             [form |-> "blank", var |-> "", arg |-> ""]}

Codes == UNION {[1..n -> Lines] : n \in 0..MaxLines}

\* this.variables.clear()
NoVariables == [v \in Names |-> "none"]

\* parse, `throw error`: no actions are returned; this.variables keeps what
\* the lines before set
thrown(vs) == [ok |-> FALSE, actions |-> <<>>, variables |-> vs]

RECURSIVE parseFrom(_, _, _, _)

\* parse, the body of the loop for one line
parseLine(code, n, vs, actions, line) ==
    IF line.form = "mind"
    THEN parseFrom(code, n + 1, [vs EXCEPT ![line.var] = "mind"],
             Append(actions, [type |-> "create_mind", variable |-> line.var,
                              arg |-> ""]))
    ELSE IF line.form = "mental"
    THEN parseFrom(code, n + 1, [vs EXCEPT ![line.var] = "mental"],
             Append(actions, [type |-> "create_mental", variable |-> line.var,
                              arg |-> ""]))
    ELSE IF line.form = "attr"
    THEN IF vs[line.var] = "none" THEN thrown(vs)
         ELSE parseFrom(code, n + 1, vs,
                  Append(actions,
                     [type |-> IF vs[line.var] = "mind"
                               THEN "update_mind_attribute"
                               ELSE "update_mental_attribute",
                      variable |-> line.var, arg |-> line.arg]))
    ELSE IF line.form = "add"
    THEN IF vs[line.var] # "mind" \/ vs[line.arg] # "mental" THEN thrown(vs)
         ELSE parseFrom(code, n + 1, vs,
                  Append(actions, [type |-> "add_mental_to_mind",
                                   variable |-> line.var, arg |-> line.arg]))
    ELSE parseFrom(code, n + 1, vs, actions)

\* parse, the loop over the lines from line n on
parseFrom(code, n, vs, actions) ==
    IF n > Len(code)
    THEN [ok |-> TRUE, actions |-> actions, variables |-> vs]
    ELSE parseLine(code, n, vs, actions, code[n])

\* A faulty parse, for comparison: the variables of the previous call are
\* kept.
parseKeepingVariables(vs, code) == parseFrom(code, 1, vs, <<>>)

\* CodeParser.parse(code) of a parser whose variables are vs
parse(vs, code) == parseFrom(code, 1, NoVariables, <<>>)

---------------------------------------------------------------------------
(* Playground (part_006, part_005): the minds list and the two maps that   *)
(* handleWebSocketMessage reads and writes.  An entry of the list is       *)
(* [id, variable, preview, mentals]: mind.id, the variable of the code it  *)
(* was created for ("" for undefined), the _preview mark, and              *)
(* mental_sphere_ids.                                                      *)

MaxMessages == 3    \* incoming messages per run

MindDataIds == {1, 2}
RequestIds  == {"r1"}
SphereIds   == {<<>>, <<7>>}

\* what the server can send: data.type, data.status, data.action, the id of
\* the mind in data.data, data.request_id and data.data.mental_sphere_ids
Incoming ==
    {d \in [type : {"response", "update", "preview", "connected"},
            status : {"success", "error"},
            action : {"upsert_mind", "append_mental", "mind_updated"},
            id : MindDataIds,
            request_id : RequestIds \cup {""},
            mentals : SphereIds] :
       /\ d.type = "response" => d.action \in {"upsert_mind", "append_mental"}
       /\ d.type = "update" => (d.action = "mind_updated" /\ d.request_id = "")
       /\ d.type \in {"preview", "connected"} => d.action = "upsert_mind"
       /\ d.type # "response" => d.status = "success"
       /\ d.status = "error" =>
              (d.action = "upsert_mind" /\ d.id = 1 /\ d.request_id = "")
       /\ d.type = "connected" => (d.id = 1 /\ d.request_id = "")
       /\ d.action = "append_mental" <=> d.mentals = <<7>>
       /\ d.action = "append_mental" => d.request_id = ""}

NoPending == [r \in RequestIds |-> ""]
NoIds     == [v \in Names |-> 0]

\* prev.find(m => m.id === id) is defined
found(minds, id) == \E i \in 1..Len(minds) : minds[i].id = id

\* prev.find(m => m._preview && m.id === id) is defined
foundPreview(minds, id) ==
    \E i \in 1..Len(minds) : minds[i].preview /\ minds[i].id = id

\* pendingMindsRef.current.get(data.request_id)
pendingVariable(pg, data) ==
    IF data.request_id = "" THEN "" ELSE pg.pendingMinds[data.request_id]

\* type 'response', status 'success', action 'upsert_mind'
upsertMind(pg, data, variable) ==
    [minds |->
        IF found(pg.minds, data.id)
        THEN [i \in 1..Len(pg.minds) |->
                 IF pg.minds[i].id = data.id
                 THEN [id |-> data.id, variable |-> variable,
                       preview |-> FALSE, mentals |-> <<>>]
                 ELSE pg.minds[i]]
        ELSE Append(pg.minds, [id |-> data.id, variable |-> variable,
                               preview |-> FALSE, mentals |-> <<>>]),
     pendingMinds |->
        IF variable # ""
        THEN [pg.pendingMinds EXCEPT ![data.request_id] = ""]
        ELSE pg.pendingMinds,
     variableToId |->
        IF variable # ""
        THEN [pg.variableToId EXCEPT ![variable] = data.id]
        ELSE pg.variableToId]

\* type 'response', status 'success', action 'append_mental'
appendMental(pg, data) ==
    [pg EXCEPT !.minds =
        [i \in 1..Len(pg.minds) |->
            IF pg.minds[i].id = data.id
            THEN [pg.minds[i] EXCEPT !.mentals = data.mentals]
            ELSE pg.minds[i]]]

\* type 'update', action 'mind_updated'
mindUpdated(pg, data) ==
    [pg EXCEPT !.minds =
        IF found(pg.minds, data.id)
        THEN [i \in 1..Len(pg.minds) |->
                 IF pg.minds[i].id = data.id
                 THEN [id |-> data.id, variable |-> pg.minds[i].variable,
                       preview |-> FALSE, mentals |-> <<>>]
                 ELSE pg.minds[i]]
        ELSE Append(pg.minds, [id |-> data.id, variable |-> "",
                               preview |-> FALSE, mentals |-> <<>>])]

\* type 'preview', action 'upsert_mind'
previewMind(pg, data, variable) ==
    [pg EXCEPT !.minds =
        IF foundPreview(pg.minds, data.id)
        THEN [i \in 1..Len(pg.minds) |->
                 IF pg.minds[i].preview /\ pg.minds[i].id = data.id
                 THEN [id |-> data.id, variable |-> variable,
                       preview |-> TRUE, mentals |-> <<>>]
                 ELSE pg.minds[i]]
        ELSE Append(pg.minds, [id |-> data.id, variable |-> variable,
                               preview |-> TRUE, mentals |-> <<>>])]

\* handleWebSocketMessage(data)
handleWebSocketMessage(pg, data) ==
    IF data.type = "response" /\ data.status = "success"
    THEN IF data.action = "upsert_mind"
         THEN upsertMind(pg, data, pendingVariable(pg, data))
         ELSE IF data.action = "append_mental"
         THEN appendMental(pg, data)
         ELSE pg
    ELSE IF data.type = "update"
    THEN IF data.action = "mind_updated" THEN mindUpdated(pg, data) ELSE pg
    ELSE IF data.type = "preview"
    THEN IF data.action = "upsert_mind"
         THEN previewMind(pg, data, pendingVariable(pg, data))
         ELSE pg
    ELSE pg

\* the editor of the page before any code was run
InitEditor ==
    /\ variables = NoVariables
    /\ parsed = [op |-> "init", code |-> <<>>, before |-> NoVariables,
                 ok |-> TRUE, actions |-> <<>>, calls |-> 0]
    /\ playground = [minds |-> <<>>, pendingMinds |-> NoPending,
                     variableToId |-> NoIds]
    /\ heard = [op |-> "init", data |-> <<>>, before |-> <<>>, count |-> 0]

---------------------------------------------------------------------------
(* State machine                                                           *)

NewMentals ==
    {newMental(x, r, sp, d) :
        x \in InitPositions, r \in Radii, sp \in Speeds, d \in Draws}

InitMind ==
    /\ mode \in {"mind", "shared"}
    /\ mental \in [MentalIds -> NewMentals \cup {NoMentals[1]}]
    /\ \A i \in MentalIds : mental[i] = NoMentals[1] <=> i \notin LiveMentals
    /\ mentals = [k \in MindIds |-> <<>>]
    /\ scale = [k \in MindIds |-> One]
    /\ balls = <<>>

InitDemo ==
    /\ mode = "demo"
    /\ mental = NoMentals
    /\ mentals = [k \in MindIds |-> <<>>]
    /\ scale = [k \in MindIds |-> One]
    /\ \E n \in 1..2 :
          balls \in [1..n -> [position : BallPositions, vel : BallVels]]

\* no client activity: the client as constructed
InitClient ==
    /\ client = WebSocketClient
    /\ sockets = NoSockets
    /\ timers = 0
    /\ wire = <<>>
    /\ released = [since |-> FALSE, sockets |-> {}]
    /\ note = Silent

Init ==
    /\ InitMind \/ InitDemo
    /\ last = Op("init", 0, 0, Zero, Quiet)
    /\ steps = 0
    /\ edits = 0
    /\ rescales = 0
    /\ InitClient
    /\ InitEditor

\* Mind.addMental(mental)
AddMental(k, i, rnd) ==
    /\ k \in LiveMinds /\ i \in LiveMentals
    /\ edits < MaxEdits
    /\ ~includes(mentals[k], i)
    /\ LET c == constrainMentalPosition(scale[k], mental[i], rnd, 0)
       IN  /\ mental' = [mental EXCEPT ![i] = c.b]
           /\ last' = Op("add", k, i, Zero,
                         [log |-> <<[kind |-> "add", before |-> mental[i],
                                     after |-> c.b]>>,
                          k |-> c.k])
    /\ mentals' = [mentals EXCEPT ![k] = Append(@, i)]
    /\ edits' = edits + 1
    /\ UNCHANGED <<mode, scale, balls, steps, rescales>>
    /\ UNCHANGED wsvars
    /\ UNCHANGED uivars

\* Mind.removeMental(mental)
RemoveMental(k, i) ==
    /\ k \in LiveMinds
    /\ edits < MaxEdits
    /\ includes(mentals[k], i)
    /\ mentals' = [mentals EXCEPT ![k] = splice(@, i)]
    /\ last' = Op("remove", k, i, Zero, Quiet)
    /\ edits' = edits + 1
    /\ UNCHANGED <<mode, mental, scale, balls, steps, rescales>>
    /\ UNCHANGED wsvars
    /\ UNCHANGED uivars

\* Mind.clearMentals()
ClearMentals(k) ==
    /\ k \in LiveMinds
    /\ edits < MaxEdits
    /\ mentals[k] # <<>>
    /\ mentals' = [mentals EXCEPT ![k] = <<>>]
    /\ last' = Op("clear", k, 0, Zero, Quiet)
    /\ edits' = edits + 1
    /\ UNCHANGED <<mode, mental, scale, balls, steps, rescales>>
    /\ UNCHANGED wsvars
    /\ UNCHANGED uivars

\* AbstractMind.setScale(scale)
SetScale(k, s) ==
    /\ k \in LiveMinds
    /\ rescales < MaxRescales
    /\ s # scale[k]
    /\ scale' = [scale EXCEPT ![k] = s]
    /\ last' = Op("setScale", k, 0, Zero, Quiet)
    /\ rescales' = rescales + 1
    /\ UNCHANGED <<mode, mental, mentals, balls, steps, edits>>
    /\ UNCHANGED wsvars
    /\ UNCHANGED uivars

\* the Mentals and the history after a step that ended as w
Stepped(k, deltaTime, w) ==
    /\ mental' = w.m
    /\ last' = Op("step", k, 0, deltaTime, w)

\* Mind.updatePhysics(deltaTime)
UpdatePhysics(k, deltaTime, rnd) ==
    /\ k \in LiveMinds
    /\ steps < MaxSteps
    /\ Stepped(k, deltaTime,
               updatePhysics(mental, mentals[k], scale[k], deltaTime, rnd))
    /\ steps' = steps + 1
    /\ UNCHANGED <<mode, mentals, scale, balls, edits, rescales>>
    /\ UNCHANGED wsvars
    /\ UNCHANGED uivars

\* the Mental and the history after a boundary check that ended as w
BoundaryHandled(k, i, w) ==
    /\ mental' = [mental EXCEPT ![i] = w.b]
    /\ last' = Op("boundary", k, i, Zero, w)

\* Mind.handleBoundaryCollision(mental), called on a Mental the Mind holds
HandleBoundaryCollision(k, i, rnd) ==
    /\ k \in LiveMinds
    /\ steps < MaxSteps
    /\ includes(mentals[k], i)
    /\ BoundaryHandled(k, i,
           handleBoundaryCollision(scale[k], mental[i], rnd, 0))
    /\ steps' = steps + 1
    /\ UNCHANGED <<mode, mentals, scale, balls, edits, rescales>>
    /\ UNCHANGED wsvars
    /\ UNCHANGED uivars

\* the balls and the history after a frame that ended as w
Framed(dt, w) ==
    /\ balls' = w.m
    /\ last' = Op("frame", 0, 0, dt, w)

\* the demo's requestAnimationFrame callback step(t)
DemoStep(gap, rnd) ==
    /\ mode = "demo"
    /\ steps < MaxFrames
    /\ Framed(clampDt(gap), step(balls, gap, rnd))
    /\ steps' = steps + 1
    /\ UNCHANGED <<mode, mental, mentals, scale, edits, rescales>>
    /\ UNCHANGED wsvars
    /\ UNCHANGED uivars

Next ==
    \/ \E k \in MindIds, i \in MentalIds, rnd \in RndSeqs : AddMental(k, i, rnd)
    \/ \E k \in MindIds, i \in MentalIds : RemoveMental(k, i)
    \/ \E k \in MindIds : ClearMentals(k)
    \/ \E k \in MindIds, s \in Scales : SetScale(k, s)
    \/ \E k \in MindIds, dt \in Deltas, rnd \in RndSeqs : UpdatePhysics(k, dt, rnd)
    \/ \E k \in MindIds, i \in MentalIds, rnd \in RndSeqs :
          HandleBoundaryCollision(k, i, rnd)
    \/ \E gap \in Gaps, rnd \in DemoRndSeqs : DemoStep(gap, rnd)

Spec == Init /\ [][Next]_vars

---------------------------------------------------------------------------
(* randomInsideSphere of the demo (part_003, part_000), in three           *)
(* dimensions: a point is <<x, y, z>>, one draw is the three values of     *)
(* Math.random() that make a point of the cube                             *)

MaxTries      == 50     \* for (let i = 0; i < 50; i++)
MaxPlacements == 1      \* randomInsideSphere calls per run

Origin == <<Zero, Zero, Zero>>

\* x * x + y * y + z * z
squaredLength(p) ==
    RAdd(RAdd(RMul(p[1], p[1]), RMul(p[2], p[2])), RMul(p[3], p[3]))

\* (Math.random() * 2 - 1) * r, three times
cubePoint(r, d) ==
    <<RMul(RSub(RMul(R(2, 1), d[1]), One), r),
      RMul(RSub(RMul(R(2, 1), d[2]), One), r),
      RMul(RSub(RMul(R(2, 1), d[3]), One), r)>>

\* A faulty placement, for comparison: the first point of the cube is
\* returned untested.
firstCubePoint(r, rnd, i) ==
    [point |-> cubePoint(r, Draw(rnd, i)), draws |-> i + 1]

\* randomInsideSphere(r) from iteration i on: the point returned and the
\* number of draws made
RECURSIVE randomInsideSphereFrom(_, _, _)
randomInsideSphereFrom(r, rnd, i) ==
    IF i >= MaxTries THEN [point |-> Origin, draws |-> i]
    ELSE IF RLe(squaredLength(cubePoint(r, Draw(rnd, i))), RMul(r, r))
    THEN [point |-> cubePoint(r, Draw(rnd, i)), draws |-> i + 1]
    ELSE randomInsideSphereFrom(r, rnd, i + 1)

randomInsideSphere(r, rnd) == randomInsideSphereFrom(r, rnd, 0)

\* the values of Math.random(), the draws and the random sources
Fractions  == {R(1, 20), R(1, 2), R(19, 20)}
CubeDraws  == Fractions \X Fractions \X Fractions
CubeSeqs   == [1..2 -> CubeDraws]

\* the radii given: containerRadius - ballRadius * 1.5 and two others
PlaceRadii == {RSub(containerRadius, RMul(ballRadius, R(3, 2))), One, R(1, 2)}

PlaceInit ==
    /\ mode = "place"
    /\ mental = NoMentals
    /\ mentals = [k \in MindIds |-> <<>>]
    /\ scale = [k \in MindIds |-> One]
    /\ balls = <<>>
    /\ last = Op("init", 0, 0, Zero, Quiet)
    /\ steps = 0
    /\ edits = 0
    /\ rescales = 0
    /\ InitClient
    /\ InitEditor

\* the history after a call that returned p
Placed(r, rnd, p) ==
    last' = Op("place", 0, 0, Zero,
               [log |-> <<[kind |-> "place", r |-> r, rnd |-> rnd,
                           point |-> p.point, draws |-> p.draws]>>,
                k |-> p.draws])

\* one call of randomInsideSphere(r)
RandomInsideSphere(r, rnd) ==
    /\ steps < MaxPlacements
    /\ Placed(r, rnd, randomInsideSphere(r, rnd))
    /\ steps' = steps + 1
    /\ UNCHANGED <<mode, mental, mentals, scale, balls, edits, rescales>>
    /\ UNCHANGED wsvars
    /\ UNCHANGED uivars

PlaceNext == \E r \in PlaceRadii, rnd \in CubeSeqs : RandomInsideSphere(r, rnd)

PlaceSpec == PlaceInit /\ [][PlaceNext]_vars

---------------------------------------------------------------------------
(* State machine of one Mental whose velocity its owner sets               *)

\* the values given to setVelocity(x, 0, 0)
VelocityInputs == {Zero, R(1, 10), R(-1, 5)}

\* new Mental({motionSpeed}) with motionSpeed 0 or 0.1, and one Mind
MentalInit ==
    /\ mode = "single"
    /\ mental \in [MentalIds -> {newMental(x, r, sp, d) :
                        x \in InitPositions, r \in Radii,
                        sp \in Speeds \cup {Zero}, d \in Draws}
                                 \cup {NoMentals[1]}]
    /\ \A i \in MentalIds : mental[i] = NoMentals[1] <=> i \notin LiveMentals
    /\ mentals = [k \in MindIds |-> <<>>]
    /\ scale = [k \in MindIds |-> One]
    /\ balls = <<>>
    /\ last = Op("init", 0, 0, Zero, Quiet)
    /\ steps = 0
    /\ edits = 0
    /\ rescales = 0
    /\ InitClient
    /\ InitEditor

\* AbstractMental.setVelocity(x, 0, 0)
SetVelocity(i, x) ==
    /\ i \in LiveMentals
    /\ edits < MaxEdits
    /\ mental' = [mental EXCEPT ![i].velocity = x]
    /\ last' = Op("setVelocity", 0, i, Zero,
                  [log |-> <<[kind |-> "set", before |-> mental[i],
                              after |-> mental'[i]]>>, k |-> 0])
    /\ edits' = edits + 1
    /\ UNCHANGED <<mode, mentals, scale, balls, steps, rescales>>
    /\ UNCHANGED wsvars
    /\ UNCHANGED uivars

\* the Mental and the history after a normalize that ended as n
Normalized(i, n) ==
    /\ mental' = [mental EXCEPT ![i] = n.b]
    /\ last' = Op("normalize", 0, i, Zero,
                  [log |-> <<[kind |-> "normalize", before |-> mental[i],
                              after |-> n.b]>>, k |-> n.k])

\* AbstractMental.normalizeVelocityToMotionSpeed(), called by the owner
NormalizeVelocity(i, rnd) ==
    /\ i \in LiveMentals
    /\ steps < MaxSteps
    /\ Normalized(i, normalizeVelocityToMotionSpeed(mental[i], rnd, 0))
    /\ steps' = steps + 1
    /\ UNCHANGED <<mode, mentals, scale, balls, edits, rescales>>
    /\ UNCHANGED wsvars
    /\ UNCHANGED uivars

MentalNext ==
    \/ \E k \in MindIds, i \in MentalIds, rnd \in RndSeqs : AddMental(k, i, rnd)
    \/ \E i \in MentalIds, x \in VelocityInputs : SetVelocity(i, x)
    \/ \E i \in MentalIds, rnd \in RndSeqs : NormalizeVelocity(i, rnd)
    \/ \E k \in MindIds, dt \in Deltas, rnd \in RndSeqs : UpdatePhysics(k, dt, rnd)

MentalSpec == MentalInit /\ [][MentalNext]_vars

---------------------------------------------------------------------------
(* State machine of the WebSocketClient                                    *)

\* no simulation: a page that holds the client only
InitNoScene ==
    /\ InitEditor
    /\ mode = "socket"
    /\ mental = NoMentals
    /\ mentals = [k \in MindIds |-> <<>>]
    /\ scale = [k \in MindIds |-> One]
    /\ balls = <<>>
    /\ last = Op("init", 0, 0, Zero, Quiet)
    /\ steps = 0
    /\ edits = 0
    /\ rescales = 0

WsInit == InitNoScene /\ InitClient

\* the JavaScript thread is in a loop that does not end
Hung == note.hung

\* connect(), up to the return of the Promise: a new socket, its handlers set
Connected(s, op) ==
    /\ sockets' = [sockets EXCEPT ![s] = "CONNECTING"]
    /\ client' = [client EXCEPT !.ws = s]
    /\ note' = Note(op, s, "", client.pendingMessages, <<>>, <<>>, <<>>, FALSE, FALSE)
    /\ UNCHANGED wire

\* connect() called by the owner of the client (Playground, useEffect)
Connect ==
    /\ ~Hung
    /\ \E s \in DOMAIN sockets : sockets[s] = "unused"
    /\ Connected(unusedSocket(sockets), "connect")
    /\ released' = [released EXCEPT !.since = FALSE]
    /\ UNCHANGED <<timers, simvars, uivars>>

\* the callback given to setTimeout by onclose: connect().catch(() => {})
Reconnect ==
    /\ ~Hung
    /\ timers > 0
    /\ \E s \in DOMAIN sockets : sockets[s] = "unused"
    /\ Connected(unusedSocket(sockets), "reconnect")
    /\ timers' = timers - 1
    /\ UNCHANGED <<released, simvars, uivars>>

\* the Playground's four client.on(...) calls
Listen ==
    /\ ~Hung
    /\ ~client.listeners
    /\ client' = [client EXCEPT !.listeners = TRUE]
    /\ note' = Note("on", NoSocket, "", client.pendingMessages, <<>>, <<>>, <<>>, FALSE, FALSE)
    /\ UNCHANGED <<sockets, timers, wire, released, simvars, uivars>>

\* onopen of socket s, the queue drained and 'connected' emitted
Opened(s, c, w) ==
    /\ client' = w.c
    /\ wire' = wire \o w.sent
    /\ note' = Note("open", s, "", client.pendingMessages, w.sent, w.lost, <<"connected">>, FALSE, FALSE)

\* the open event of socket s: ws.onopen
OnOpen(s) ==
    /\ ~Hung
    /\ s \in DOMAIN sockets
    /\ sockets[s] = "CONNECTING"
    /\ Len(wire) + Len(client.pendingMessages) <= MaxWire
    /\ sockets' = [sockets EXCEPT ![s] = "OPEN"]
    /\ IF drainHangs([client EXCEPT !.connected = TRUE], sockets')
       THEN /\ client' = [client EXCEPT !.connected = TRUE,
                                        !.reconnectAttempts = 0]
            /\ note' = Note("open", s, "", client.pendingMessages, <<>>, <<>>, <<>>, FALSE, TRUE)
            /\ UNCHANGED wire
       ELSE Opened(s, client,
                drain([client EXCEPT !.connected = TRUE,
                                     !.reconnectAttempts = 0],
                      sockets', [c |-> client, sent |-> <<>>, lost |-> <<>>]))
    /\ UNCHANGED <<timers, released, simvars, uivars>>

\* A faulty close handler, for comparison: a reconnect is scheduled whatever
\* the number of attempts.
OnCloseAlwaysRetry(s, failed) ==
    /\ ~Hung
    /\ s \in DOMAIN sockets
    /\ sockets[s] \in {"CONNECTING", "OPEN", "CLOSING"}
    /\ sockets' = [sockets EXCEPT ![s] = "CLOSED"]
    /\ client' = [client EXCEPT !.connected = FALSE,
                                !.reconnectAttempts = @ + 1]
    /\ timers' = timers + 1
    /\ note' = Note("close", s, "", client.pendingMessages, <<>>, <<>>,
                    (IF failed THEN <<"error">> ELSE <<>>) \o <<"disconnected">>,
                    TRUE, FALSE)
    /\ UNCHANGED <<wire, released, simvars, uivars>>

\* the close event of socket s (after an error event when the connection
\* failed): ws.onerror, ws.onclose
OnClose(s, failed) ==
    /\ ~Hung
    /\ s \in DOMAIN sockets
    /\ sockets[s] \in {"CONNECTING", "OPEN", "CLOSING"}
    /\ sockets' = [sockets EXCEPT ![s] = "CLOSED"]
    /\ client' = [client EXCEPT
                     !.connected = FALSE,
                     !.reconnectAttempts =
                         IF @ < maxReconnectAttempts THEN @ + 1 ELSE @]
    /\ timers' = IF client.reconnectAttempts < maxReconnectAttempts
                 THEN timers + 1 ELSE timers
    /\ note' = Note("close", s, "", client.pendingMessages, <<>>, <<>>,
                    (IF failed THEN <<"error">> ELSE <<>>) \o <<"disconnected">>,
                    client.reconnectAttempts < maxReconnectAttempts, FALSE)
    /\ UNCHANGED <<wire, released, simvars, uivars>>

\* send(message) done: the client, the wire and the history
Sent(message, r) ==
    /\ client' = r.c
    /\ wire' = wire \o r.sent
    /\ note' = Note("send", client.ws, message, client.pendingMessages, r.sent, r.lost, <<>>, FALSE, FALSE)

\* send(message) called by the owner of the client
Send(message) ==
    /\ ~Hung
    /\ Len(client.pendingMessages) < MaxQueue
    /\ Len(wire) < MaxWire
    /\ Sent(message, send(client, sockets, message))
    /\ UNCHANGED <<sockets, timers, released, simvars, uivars>>

\* disconnect()
Disconnect ==
    /\ ~Hung
    /\ sockets' = IF client.ws # NoSocket /\ sockets[client.ws] \in {"CONNECTING", "OPEN"}
                  THEN [sockets EXCEPT ![client.ws] = "CLOSING"]
                  ELSE sockets
    /\ client' = [client EXCEPT !.ws = NoSocket, !.connected = FALSE,
                                !.listeners = FALSE]
    /\ released' = [since |-> TRUE,
                    sockets |-> IF client.ws # NoSocket
                                THEN released.sockets \cup {client.ws}
                                ELSE released.sockets]
    /\ note' = Note("disconnect", client.ws, "", client.pendingMessages, <<>>, <<>>, <<>>, FALSE, FALSE)
    /\ UNCHANGED <<timers, wire, simvars, uivars>>

WsNext ==
    \/ Connect
    \/ Reconnect
    \/ Listen
    \/ \E s \in SocketIds : OnOpen(s)
    \/ \E s \in SocketIds, failed \in BOOLEAN : OnClose(s, failed)
    \/ \E message \in Messages : Send(message)
    \/ Disconnect

WsSpec == WsInit /\ [][WsNext]_vars

---------------------------------------------------------------------------
(* The WebSocketClient over a longer run of connections, its owner sending *)
(* nothing                                                                 *)

MaxRetrySockets == 6    \* WebSocket objects created per run

RetrySocketIds == 1..MaxRetrySockets

RetryInit ==
    /\ InitNoScene
    /\ client = WebSocketClient
    /\ sockets = [s \in RetrySocketIds |-> "unused"]
    /\ timers = 0
    /\ wire = <<>>
    /\ released = [since |-> FALSE, sockets |-> {}]
    /\ note = Silent

RetryNext ==
    \/ Connect
    \/ Reconnect
    \/ \E s \in RetrySocketIds : OnOpen(s)
    \/ \E s \in RetrySocketIds, failed \in BOOLEAN : OnClose(s, failed)
    \/ Disconnect

RetrySpec == RetryInit /\ [][RetryNext]_vars

---------------------------------------------------------------------------
(* State machine of the CodeParser                                         *)

ParseInit == InitNoScene /\ InitClient

\* the parser and the history after a call that ended as r
Parsed(code, r) ==
    /\ variables' = r.variables
    /\ parsed' = [op |-> "parse", code |-> code, before |-> variables,
                  ok |-> r.ok, actions |-> r.actions,
                  calls |-> parsed.calls + 1]

\* CodeParser.parse(code)
Parse(code) ==
    /\ parsed.calls < MaxParses
    /\ Parsed(code, parse(variables, code))
    /\ UNCHANGED <<playground, heard, simvars, wsvars>>

ParseNext == \E code \in Codes : Parse(code)

ParseSpec == ParseInit /\ [][ParseNext]_vars

---------------------------------------------------------------------------
(* State machine of the Playground: it registers its listeners and         *)
(* connects its client; once a socket is open the server's messages arrive *)
(* in any order, and the timers that handleExecute sets for the            *)
(* create_mind actions of a code fire in between.                          *)

PlaygroundInit == InitNoScene /\ InitClient

\* handleExecute, the timer of a create_mind action: the request is noted
\* and sent through the client
CreateMind(requestId, variable) ==
    /\ ~Hung
    /\ client.connected
    /\ Len(client.pendingMessages) < MaxQueue
    /\ Len(wire) < MaxWire
    /\ playground' = [playground EXCEPT !.pendingMinds[requestId] = variable]
    /\ heard' = [heard EXCEPT !.op = "create", !.data = <<requestId, variable>>,
                              !.before = playground.minds]
    /\ Sent("upsert_mind", send(client, sockets, "upsert_mind"))
    /\ UNCHANGED <<variables, parsed, sockets, timers, released, simvars>>

\* client.on('message', data => handleWebSocketMessage(data))
HandleWebSocketMessage(data) ==
    /\ ~Hung
    /\ client.listeners
    /\ \E s \in DOMAIN sockets : sockets[s] = "OPEN"
    /\ heard.count < MaxMessages
    /\ playground' = handleWebSocketMessage(playground, data)
    /\ heard' = [op |-> "message", data |-> data, before |-> playground.minds,
                 count |-> heard.count + 1]
    /\ UNCHANGED <<variables, parsed, simvars, wsvars>>

PlaygroundNext ==
    \/ Listen
    \/ Connect
    \/ \E s \in SocketIds : OnOpen(s)
    \/ \E requestId \in RequestIds, variable \in Names :
          CreateMind(requestId, variable)
    \/ \E data \in Incoming : HandleWebSocketMessage(data)

PlaygroundSpec == PlaygroundInit /\ [][PlaygroundNext]_vars

---------------------------------------------------------------------------
(* Properties.  They read the state and the history variable `last`: after *)
(* a step of a Mind holding n Mentals, last.log holds n "body" entries     *)
(* (in the order of Mind.mentals), then one "pair" entry per pair, then n  *)
(* "final" entries; after a frame of the demo, the "body" entries and then *)
(* the "pair" entries.                                                     *)

\* the Mentals stepped by the last updatePhysics
StepIds == IF last.op = "step" THEN mentals[last.mind] ELSE <<>>

\* C1 (as stated): once a step has completed, every body is inside the
\* boundary, |position| * scale <= boundaryRadius*scale - bodyRadius*scale,
\* for the Mentals of the Mind stepped and for the balls of the demo.
C1_ContainedAfterStep ==
    /\ last.op = "step" =>
          \A n \in 1..Len(StepIds) :
             RLe(RMul(Length(mental[StepIds[n]].position), scale[last.mind]),
                 RSub(getRadius(scale[last.mind]),
                      RMul(mental[StepIds[n]].radius, scale[last.mind])))
    /\ last.op = "frame" =>
          \A n \in 1..Len(balls) :
             RLe(Length(balls[n].position), RSub(containerRadius, ballRadius))

\* C2: right after construction, and after every completed updatePhysics,
\* every Mental with motionSpeed > 0 has |velocity| = motionSpeed.
C2_FixedSpeed ==
    /\ last.op = "init" =>
          \A i \in LiveMentals :
             RGt(mental[i].motionSpeed, Zero) =>
                Length(mental[i].velocity) = mental[i].motionSpeed
    /\ last.op = "step" =>
          \A n \in 1..Len(StepIds) :
             RGt(mental[StepIds[n]].motionSpeed, Zero) =>
                Length(mental[StepIds[n]].velocity)
                   = mental[StepIds[n]].motionSpeed

\* C2's case: a step in which a Mental was reflected at the boundary and a
\* pair received an impulse, so that velocities of other magnitudes were set
C2_StepWithReflectionAndImpulse ==
    /\ last.op = "step"
    /\ \E x \in DOMAIN last.log :
          /\ last.log[x].kind = "body"
          /\ last.log[x].beyond
          /\ RGt(last.log[x].vn, Zero)
          /\ Length(last.log[x].raw) # mental[last.log[x].i].motionSpeed
    /\ \E x \in DOMAIN last.log :
          /\ last.log[x].kind = "pair"
          /\ last.log[x].bounce
          /\ Length(last.log[x].raw1) # mental[last.log[x].i].motionSpeed

\* C3 (as stated): after every completed frame of the demo, each ball's
\* speed lies within [minSpeed, maxSpeed].
C3_ClampedSpeedAfterFrame ==
    last.op = "frame" =>
       \A n \in 1..Len(balls) :
          /\ RGe(Length(balls[n].vel), minSpeed)
          /\ RLe(Length(balls[n].vel), maxSpeed)

\* two bodies at x1, x2 with radii r1, r2 overlap
Overlapping(x1, x2, r1, r2) ==
    /\ RGt(Length(RSub(x2, x1)), Zero)
    /\ RLt(Length(RSub(x2, x1)), RAdd(r1, r2))

\* two bodies at x1, x2 with radii r1, r2 do not overlap
Apart(x1, x2, r1, r2) == RGe(Length(RSub(x2, x1)), RAdd(r1, r2))

\* the last step was a step of a Mind holding exactly two Mentals that
\* overlapped when it started
TwoOverlappingMentalsStepped ==
    /\ last.op = "step"
    /\ Len(StepIds) = 2
    /\ Overlapping(last.log[1].before.position, last.log[2].before.position,
                   mental[StepIds[1]].radius, mental[StepIds[2]].radius)

\* the last frame was a frame of a demo holding exactly two balls that
\* overlapped when it started
TwoOverlappingBallsStepped ==
    /\ last.op = "frame"
    /\ Len(balls) = 2
    /\ Overlapping(last.log[1].before.position, last.log[2].before.position,
                   ballRadius, ballRadius)

\* C4 (as stated): two bodies, alone in their container, that overlap when a
\* step starts are at distance >= radius_i + radius_j when it has completed.
C4_NoOverlapAfterStep ==
    /\ TwoOverlappingMentalsStepped =>
          Apart(mental[StepIds[1]].position, mental[StepIds[2]].position,
                mental[StepIds[1]].radius, mental[StepIds[2]].radius)
    /\ TwoOverlappingBallsStepped =>
          Apart(balls[1].position, balls[2].position, ballRadius, ballRadius)

\* C4 (amended): two bodies, alone in their container, that overlap when a
\* step starts are at distance >= radius_i + radius_j when it has completed,
\* provided that their centres do not coincide when the pair is examined and,
\* for a Mind, that the final boundary pass leaves both positions unchanged.
C4_NoOverlapUnlessReclamped ==
    /\ ( /\ TwoOverlappingMentalsStepped
         /\ last.log[3].b1.position # last.log[3].b2.position
         /\ last.log[4].after.position = last.log[4].before.position
         /\ last.log[5].after.position = last.log[5].before.position )
       => Apart(mental[StepIds[1]].position, mental[StepIds[2]].position,
                mental[StepIds[1]].radius, mental[StepIds[2]].radius)
    /\ ( /\ TwoOverlappingBallsStepped
         /\ last.log[3].b1.position # last.log[3].b2.position )
       => Apart(balls[1].position, balls[2].position, ballRadius, ballRadius)

\* C4's case: two Mentals overlapped when the step started, still overlapped
\* when the pair was examined, were separated, and the final boundary pass
\* left them where the separation put them
C4_SeparatedPair ==
    /\ TwoOverlappingMentalsStepped
    /\ last.log[3].hit
    /\ last.log[4].after.position = last.log[4].before.position
    /\ last.log[5].after.position = last.log[5].before.position

\* C5 (as stated): when the pairwise resolver meets two overlapping bodies
\* whose velocities are opposite, equal in magnitude and approaching, each
\* body is left with the other's velocity before any renormalization
\* (Mind.handleCollision and the demo's ball-ball loop).
C5_HeadOnSwap ==
    /\ last.op = "step" =>
          \A x \in DOMAIN last.log :
             ( /\ last.log[x].kind = "pair"
               /\ last.log[x].hit
               /\ last.log[x].b1.velocity # Zero
               /\ last.log[x].b1.velocity = RNeg(last.log[x].b2.velocity)
               /\ RLt(RMul(RSub(last.log[x].b2.velocity,
                                last.log[x].b1.velocity),
                           RSub(last.log[x].b2.position,
                                last.log[x].b1.position)), Zero) )
             => /\ last.log[x].raw1 = last.log[x].b2.velocity
                /\ last.log[x].raw2 = last.log[x].b1.velocity
    /\ last.op = "frame" =>
          \A x \in DOMAIN last.log :
             ( /\ last.log[x].kind = "pair"
               /\ last.log[x].hit
               /\ last.log[x].b1.vel # Zero
               /\ last.log[x].b1.vel = RNeg(last.log[x].b2.vel)
               /\ RLt(RMul(RSub(last.log[x].b2.vel, last.log[x].b1.vel),
                           RSub(last.log[x].b2.position,
                                last.log[x].b1.position)), Zero) )
             => /\ last.log[x].raw1 = last.log[x].b2.vel
                /\ last.log[x].raw2 = last.log[x].b1.vel

\* C6 (as stated): the random source is consulted only to re-seed a body
\* whose velocity is exactly zero: a step over bodies that all have a
\* non-zero velocity when it starts consumes no random value.
C6_NoDrawUnlessZeroVelocity ==
    /\ ( /\ last.op = "step"
         /\ \A x \in DOMAIN last.log :
               last.log[x].kind = "body" =>
                  last.log[x].before.velocity # Zero )
       => last.k = 0
    /\ ( /\ last.op = "frame"
         /\ \A x \in DOMAIN last.log :
               last.log[x].kind = "body" => last.log[x].before.vel # Zero )
       => last.k = 0

\* C7 (as stated): right after addMental(m) returns, m is inside the
\* boundary with margin: |m.position| * scale <= boundaryRadius*scale -
\* m.radius*scale - 0.01.
C7_AddClampsWithMargin ==
    last.op = "add" =>
       RLe(RMul(Length(mental[last.id].position), scale[last.mind]),
           RSub(RSub(getRadius(scale[last.mind]),
                     RMul(mental[last.id].radius, scale[last.mind])),
                Margin))

C9_ContainedAfterRescale ==
    (last.op = "step" /\ scale[last.mind] # One) =>
       \A n \in 1..Len(StepIds) :
          RLe(RMul(Length(mental[StepIds[n]].position), scale[last.mind]),
              RSub(getRadius(scale[last.mind]),
                   RMul(mental[StepIds[n]].radius, scale[last.mind])))

\* C10 (as stated): a Mental is never a member of two Minds' collections.
C10_ExclusiveOwnership ==
    \A i \in MentalIds :
       Cardinality({k \in MindIds : includes(mentals[k], i)}) <= 1

\* two velocities on the axis have the same direction
SameDirection(u, v) == (u = Zero /\ v = Zero) \/ u[1] * v[1] > 0

\* C11 (as stated): when boundary handling clamps a body whose velocity has a
\* non-positive component along the outward normal (vn <= 0), the direction
\* of its velocity is left unchanged, in Mind.updatePhysics, in
\* Mind.handleBoundaryCollision and in the demo's wall collision.
C11_NoSecondReflection ==
    /\ last.op = "step" =>
          \A x \in DOMAIN last.log :
             ( /\ last.log[x].kind = "body"
               /\ last.log[x].beyond
               /\ RLe(last.log[x].vn, Zero) )
             => SameDirection(last.log[x].start.velocity,
                              last.log[x].after.velocity)
    /\ ( /\ last.op = "boundary"
         /\ last.log[1].beyond
         /\ RLe(last.log[1].vn, Zero) )
       => SameDirection(last.log[1].before.velocity,
                           last.log[1].after.velocity)
    /\ last.op = "frame" =>
          \A x \in DOMAIN last.log :
             ( /\ last.log[x].kind = "body"
               /\ last.log[x].beyond
               /\ RLe(last.log[x].vn, Zero) )
             => SameDirection(last.log[x].start.vel, last.log[x].after.vel)

\* the rank of the pair (a, b), a < b, among the pairs of 1..n in index order
PairRank(a, b, n) == (a - 1) * n - ((a - 1) * a) \div 2 + (b - a)

\* log records the three phases of a step over the bodies ids, in order:
\* every body integrated, then every pair once in index order, then every
\* body finally re-clamped
ThreePhases(ids, log) ==
    /\ Len(log) = 2 * Len(ids) + (Len(ids) * (Len(ids) - 1)) \div 2
    /\ \A x \in 1..Len(ids) :
          log[x].kind = "body" /\ log[x].i = ids[x]
    /\ \A x \in 1..((Len(ids) * (Len(ids) - 1)) \div 2) :
          /\ log[Len(ids) + x].kind = "pair"
          /\ \E a, b \in 1..Len(ids) :
                /\ a < b
                /\ PairRank(a, b, Len(ids)) = x
                /\ log[Len(ids) + x].i = ids[a]
                /\ log[Len(ids) + x].j = ids[b]
    /\ \A x \in 1..Len(ids) :
          /\ log[Len(log) - Len(ids) + x].kind = "final"
          /\ log[Len(log) - Len(ids) + x].i = ids[x]

\* C12 (as stated): every step runs three phases in order, each over all
\* bodies before the next begins: per-body integration and containment, each
\* pair once in index order, a final re-clamp and speed re-check per body;
\* for Mind.updatePhysics and for the demo's step.
C12_ThreePhasesInOrder ==
    /\ last.op = "step" => ThreePhases(StepIds, last.log)
    /\ last.op = "frame" =>
          ThreePhases([x \in 1..Len(balls) |-> x], last.log)

\* the unit vector from x1 towards x2 (x1 # x2)
NormalFrom(x1, x2) == RDiv(RSub(x2, x1), Length(RSub(x2, x1)))

\* the velocities v1, v2 of a pair with normal n and closing speed
\* c = (v2 - v1) . n became raw1, raw2 by an impulse of restitution e: each
\* changed along n by (1 + e) * |c| / 2, and the relative normal velocity
\* became -e * c
HalfImpulse(v1, v2, raw1, raw2, n, e) ==
    /\ RAbs(RMul(RSub(raw1, v1), n))
          = RMul(RMul(RAdd(One, e), RAbs(RMul(RSub(v2, v1), n))), R(1, 2))
    /\ RAbs(RMul(RSub(raw2, v2), n))
          = RMul(RMul(RAdd(One, e), RAbs(RMul(RSub(v2, v1), n))), R(1, 2))
    /\ RMul(RSub(raw2, raw1), n) = RNeg(RMul(e, RMul(RSub(v2, v1), n)))

\* C13 (as stated): for an overlapping, approaching pair with closing speed
\* c < 0 the resolver changes each velocity along n by (1 + restitution) *
\* |c| / 2, so that the relative normal velocity right after the impulse is
\* -restitution * c (restitution 0.9 in Mind.handleCollision, 1 in the demo).
C13_ImpulseMagnitude ==
    /\ last.op = "step" =>
          \A x \in DOMAIN last.log :
             (last.log[x].kind = "pair" /\ last.log[x].bounce) =>
                HalfImpulse(last.log[x].b1.velocity, last.log[x].b2.velocity,
                            last.log[x].raw1, last.log[x].raw2,
                            NormalFrom(last.log[x].b1.position,
                                       last.log[x].b2.position),
                            PairBounce)
    /\ last.op = "frame" =>
          \A x \in DOMAIN last.log :
             (last.log[x].kind = "pair" /\ last.log[x].bounce) =>
                HalfImpulse(last.log[x].b1.vel, last.log[x].b2.vel,
                            last.log[x].raw1, last.log[x].raw2,
                            NormalFrom(last.log[x].b1.position,
                                       last.log[x].b2.position),
                            restitution)

\* C14: for every overlapping approaching pair, the sum of the two velocities
\* right after the impulse (before any renormalization) equals their sum
\* right before it.
C14_ImpulseConservesMomentum ==
    /\ last.op = "step" =>
          \A x \in DOMAIN last.log :
             (last.log[x].kind = "pair" /\ last.log[x].bounce) =>
                RAdd(last.log[x].raw1, last.log[x].raw2)
                   = RAdd(last.log[x].b1.velocity, last.log[x].b2.velocity)
    /\ last.op = "frame" =>
          \A x \in DOMAIN last.log :
             (last.log[x].kind = "pair" /\ last.log[x].bounce) =>
                RAdd(last.log[x].raw1, last.log[x].raw2)
                   = RAdd(last.log[x].b1.vel, last.log[x].b2.vel)

\* C14's case: Mind.handleCollision gave an impulse to an approaching pair
\* whose velocities do not cancel
C14_MindPairBounced ==
    /\ last.op = "step"
    /\ \E x \in DOMAIN last.log :
          /\ last.log[x].kind = "pair"
          /\ last.log[x].bounce
          /\ last.log[x].raw1 # last.log[x].b1.velocity
          /\ last.log[x].raw2 # last.log[x].b2.velocity

\* two centres x1, x2 at distance d < minD were moved to y1, y2: each by
\* (minD - d) / 2, to a distance of exactly minD, about the same midpoint
EvenlySeparated(x1, x2, y1, y2, minD) ==
    /\ Length(RSub(y1, x1))
          = RMul(RSub(minD, Length(RSub(x2, x1))), R(1, 2))
    /\ Length(RSub(y2, x2))
          = RMul(RSub(minD, Length(RSub(x2, x1))), R(1, 2))
    /\ Length(RSub(y2, y1)) = minD
    /\ RAdd(y1, y2) = RAdd(x1, x2)

\* C15: when two bodies overlap with centers at distance d, 0 < d < minD =
\* r_i + r_j, each is moved along the line between the centers by
\* (minD - d) / 2; right after this correction their distance is exactly
\* minD and their midpoint is where it was.
C15_SymmetricSeparation ==
    /\ last.op = "step" =>
          \A x \in DOMAIN last.log :
             (last.log[x].kind = "pair" /\ last.log[x].hit) =>
                EvenlySeparated(
                    last.log[x].b1.position, last.log[x].b2.position,
                    last.log[x].a1.position, last.log[x].a2.position,
                    RAdd(last.log[x].b1.radius, last.log[x].b2.radius))
    /\ last.op = "frame" =>
          \A x \in DOMAIN last.log :
             (last.log[x].kind = "pair" /\ last.log[x].hit) =>
                EvenlySeparated(
                    last.log[x].b1.position, last.log[x].b2.position,
                    last.log[x].a1.position, last.log[x].a2.position,
                    RMul(ballRadius, R(2, 1)))

\* C15's case: Mind.handleCollision separated two Mentals of different radii
C15_UnequalPairSeparated ==
    /\ last.op = "step"
    /\ \E x \in DOMAIN last.log :
          /\ last.log[x].kind = "pair"
          /\ last.log[x].hit
          /\ last.log[x].b1.radius # last.log[x].b2.radius
          /\ last.log[x].a1.position # last.log[x].b1.position

\* C16 (as stated): after disconnect(), until the caller calls connect()
\* again, the client opens no connection on its own: the close event of a
\* socket that disconnect() closed sets no reconnect timer, and no reconnect
\* callback runs connect().
C16_NoConnectionAfterDisconnect ==
    released.since =>
        /\ note.op # "reconnect"
        /\ ~(note.op = "close" /\ note.socket \in released.sockets /\ note.scheduled)

\* C17 (as stated): a message given to send() while the client cannot
\* transmit is appended to pendingMessages; an open hands every queued
\* message to the socket exactly once, in the order of the send() calls, and
\* then emits 'connected'; no operation takes a message from the queue
\* without handing it to the socket.
C17_QueuedMessagesDelivered ==
    /\ (note.op = "send" /\ ~canTransmit([client EXCEPT !.pendingMessages = note.before], sockets)) =>
          client.pendingMessages = Append(note.before, note.message)
    /\ note.op = "open" =>
          /\ ~note.hung
          /\ note.sent = note.before
          /\ client.pendingMessages = <<>>
          /\ note.emits = <<"connected">>
    /\ note.lost = <<>> \/ note.op = "send"

\* two centres x1, x2 overlap: 0 < d < minD
Touching(x1, x2, minD) ==
    RGt(Length(RSub(x2, x1)), Zero) /\ RLt(Length(RSub(x2, x1)), minD)

\* the closing speed (v2 - v1) . n of a pair with distinct centres x1, x2
ClosingSpeed(x1, x2, v1, v2) == RMul(RSub(v2, v1), NormalFrom(x1, x2))

\* C18: when two bodies overlap but their closing speed (v_j - v_i) . n is
\* >= 0 (separating or tangential), the pairwise resolver leaves both
\* velocities exactly as they were; only the positions are corrected.
C18_NoImpulseUnlessApproaching ==
    /\ last.op = "step" =>
          \A x \in DOMAIN last.log :
             ( /\ last.log[x].kind = "pair"
               /\ Touching(last.log[x].b1.position, last.log[x].b2.position,
                           RAdd(last.log[x].b1.radius, last.log[x].b2.radius))
               /\ RGe(ClosingSpeed(last.log[x].b1.position,
                                   last.log[x].b2.position,
                                   last.log[x].b1.velocity,
                                   last.log[x].b2.velocity), Zero) ) =>
                /\ last.log[x].raw1 = last.log[x].b1.velocity
                /\ last.log[x].raw2 = last.log[x].b2.velocity
                /\ last.log[x].a1.velocity = last.log[x].b1.velocity
                /\ last.log[x].a2.velocity = last.log[x].b2.velocity
    /\ last.op = "frame" =>
          \A x \in DOMAIN last.log :
             ( /\ last.log[x].kind = "pair"
               /\ Touching(last.log[x].b1.position, last.log[x].b2.position,
                           RMul(ballRadius, R(2, 1)))
               /\ RGe(ClosingSpeed(last.log[x].b1.position,
                                   last.log[x].b2.position,
                                   last.log[x].b1.vel,
                                   last.log[x].b2.vel), Zero) ) =>
                /\ last.log[x].a1.vel = last.log[x].b1.vel
                /\ last.log[x].a2.vel = last.log[x].b2.vel

\* C18's case: Mind.handleCollision moved apart two overlapping Mentals that
\* were separating
C18_SeparatingPairMoved ==
    /\ last.op = "step"
    /\ \E x \in DOMAIN last.log :
          /\ last.log[x].kind = "pair"
          /\ Touching(last.log[x].b1.position, last.log[x].b2.position,
                      RAdd(last.log[x].b1.radius, last.log[x].b2.radius))
          /\ RGt(ClosingSpeed(last.log[x].b1.position,
                              last.log[x].b2.position,
                              last.log[x].b1.velocity,
                              last.log[x].b2.velocity), Zero)
          /\ last.log[x].a1.position # last.log[x].b1.position

\* C19: a pair whose centers coincide (d = 0) or whose distance is at least
\* r_i + r_j is left as it was by the pairwise resolver, positions and
\* velocities alike.
C19_UntouchedPairs ==
    /\ last.op = "step" =>
          \A x \in DOMAIN last.log :
             ( /\ last.log[x].kind = "pair"
               /\ ~Touching(last.log[x].b1.position, last.log[x].b2.position,
                            RAdd(last.log[x].b1.radius, last.log[x].b2.radius)) ) =>
                (last.log[x].a1 = last.log[x].b1 /\ last.log[x].a2 = last.log[x].b2)
    /\ last.op = "frame" =>
          \A x \in DOMAIN last.log :
             ( /\ last.log[x].kind = "pair"
               /\ ~Touching(last.log[x].b1.position, last.log[x].b2.position,
                            RMul(ballRadius, R(2, 1))) ) =>
                (last.log[x].a1 = last.log[x].b1 /\ last.log[x].a2 = last.log[x].b2)

\* C19's case: Mind.handleCollision met two Mentals with the same centre
C19_CoincidentPairMet ==
    /\ last.op = "step"
    /\ \E x \in DOMAIN last.log :
          /\ last.log[x].kind = "pair"
          /\ last.log[x].b1.position = last.log[x].b2.position

\* the unit vector towards x, (1,0,0) for the centre
Towards(x) == IF RGt(Length(x), Zero) THEN RDiv(x, Length(x)) ELSE One

\* maxDistance of updatePhysics for a Mental of radius r in a Mind of scale sc
StepLimit(sc, r) == RSub(RSub(getRadius(sc), RMul(r, sc)), Margin)

Unpaired(i) ==
    \A y \in DOMAIN last.log :
       (last.log[y].kind = "pair" /\ last.log[y].hit) =>
          (last.log[y].i # i /\ last.log[y].j # i)

\* C21 (as stated): a body whose candidate position stays within the limit
\* and that takes part in no pairwise collision is moved by one step with
\* time delta dt by exactly velocity * dt, velocity being its speed-normalized
\* velocity at the start of the step (Mind.updatePhysics and the demo step).
C21_MovedByVelocityTimesDt ==
    /\ last.op = "step" =>
          \A x \in DOMAIN last.log :
             ( /\ last.log[x].kind = "body"
               /\ RLe(Length(RMul(last.log[x].next, scale[last.mind])),
                      StepLimit(scale[last.mind], last.log[x].start.radius))
               /\ Unpaired(last.log[x].i) ) =>
                mental[last.log[x].i].position
                   = RAdd(last.log[x].start.position,
                          RMul(last.log[x].start.velocity, last.dt))
    /\ last.op = "frame" =>
          \A x \in DOMAIN last.log :
             ( /\ last.log[x].kind = "body"
               /\ RLe(Length(last.log[x].next),
                      RSub(containerRadius, ballRadius))
               /\ Unpaired(last.log[x].i) ) =>
                balls[last.log[x].i].position
                   = RAdd(last.log[x].start.position,
                          RMul(last.log[x].start.vel, last.dt))

\* C22 (as stated): a Mental exactly at the center, which is within the
\* limit, keeps its position through addMental and through the final clamp
\* of a step, and addMental draws no random value for it.
C22_CenterKeptWithoutDraw ==
    /\ (last.op = "add" /\ last.log[1].before.position = Zero) =>
          (mental[last.id].position = Zero /\ last.k = 0)
    /\ last.op = "step" =>
          \A x \in DOMAIN last.log :
             (last.log[x].kind = "final" /\ last.log[x].before.position = Zero) =>
                last.log[x].after.position = Zero

C24_NoForcedMotionAtSpeedZero ==
    /\ (last.op = "normalize" /\ last.log[1].before.motionSpeed = Zero) =>
          mental[last.id].velocity = last.log[1].before.velocity
    /\ last.op = "step" =>
          \A x \in DOMAIN last.log :
             (last.log[x].kind = "body" /\ last.log[x].before.motionSpeed = Zero) =>
                mental[last.log[x].i].velocity = last.log[x].before.velocity

\* C25 (as stated): the loop of onopen that drains pendingMessages ends, in
\* every interleaving of connect(), disconnect(), send() and socket events.
C25_FlushTerminates == ~note.hung

\* a step in which a socket's close event, or open event, was handled
CloseHandled ==
    \E s \in DOMAIN sockets : sockets[s] # "CLOSED" /\ sockets'[s] = "CLOSED"

OpenHandled ==
    \E s \in DOMAIN sockets : sockets[s] = "CONNECTING" /\ sockets'[s] = "OPEN"

\* C26: reconnectAttempts stays within 0..maxReconnectAttempts; a close event
\* sets a reconnect timer exactly when reconnectAttempts < 5, after adding one
\* to it, and nothing else sets one; an open sets reconnectAttempts to 0.
C26_BoundedReconnection ==
    [][ /\ client'.reconnectAttempts \in 0..maxReconnectAttempts
        /\ CloseHandled =>
              IF client.reconnectAttempts < maxReconnectAttempts
              THEN /\ client'.reconnectAttempts = client.reconnectAttempts + 1
                   /\ timers' = timers + 1
              ELSE /\ client'.reconnectAttempts = client.reconnectAttempts
                   /\ timers' = timers
        /\ OpenHandled => client'.reconnectAttempts = 0
        /\ timers' > timers => CloseHandled ]_vars

\* C26's case: after five closes that each set a reconnect timer, with no
\* open in between, the close of the sixth socket has set none
C26_SixthCloseGivesUp ==
    /\ note.op = "close"
    /\ note.socket = 6
    /\ ~note.scheduled
    /\ client.reconnectAttempts = maxReconnectAttempts
    /\ timers = 0

\* C27 (as stated): the time delta that the render loops hand to the
\* simulation step (the useFrame callback to Mind.updatePhysics, the demo's
\* requestAnimationFrame callback to its integration) is at most 0.033.
C27_DeltaClamped ==
    (last.op = "step" \/ last.op = "frame") => RLe(last.dt, MaxDt)

\* draw n (counted from 1) of the source rnd gives a point of the ball of
\* radius r
Accepted(r, rnd, n) ==
    RLe(squaredLength(cubePoint(r, Draw(rnd, n - 1))), RMul(r, r))

\* C28: randomInsideSphere(r) makes at most 50 draws; the point it returns
\* satisfies x^2 + y^2 + z^2 <= r^2 and is the first accepted draw, or the
\* origin when all 50 draws were rejected.
C28_PlacementBoundedAndInside ==
    last.op = "place" =>
       /\ last.log[1].draws \in 1..MaxTries
       /\ RLe(squaredLength(last.log[1].point),
              RMul(last.log[1].r, last.log[1].r))
       /\ \/ /\ Accepted(last.log[1].r, last.log[1].rnd, last.log[1].draws)
             /\ last.log[1].point
                   = cubePoint(last.log[1].r,
                               Draw(last.log[1].rnd, last.log[1].draws - 1))
             /\ \A n \in 1..(last.log[1].draws - 1) :
                   ~Accepted(last.log[1].r, last.log[1].rnd, n)
          \/ /\ last.log[1].draws = MaxTries
             /\ last.log[1].point = Origin
             /\ \A n \in 1..MaxTries :
                   ~Accepted(last.log[1].r, last.log[1].rnd, n)

\* C28's case: all 50 draws were rejected and the origin was returned
C28_FellBackToOrigin ==
    /\ last.op = "place"
    /\ last.log[1].draws = MaxTries
    /\ last.log[1].point = Origin
    /\ ~Accepted(last.log[1].r, last.log[1].rnd, 1)

\* what the lines before line n of the code declare the name v to be
RECURSIVE DeclaredBefore(_, _, _)
DeclaredBefore(code, n, v) ==
    IF n <= 1 THEN "none"
    ELSE IF code[n - 1].form \in {"mind", "mental"} /\ code[n - 1].var = v
    THEN code[n - 1].form
    ELSE DeclaredBefore(code, n - 1, v)

\* line n of the code uses a name that no earlier line declares as needed
UsesUndeclared(code, n) ==
    \/ /\ code[n].form = "attr"
       /\ DeclaredBefore(code, n, code[n].var) = "none"
    \/ /\ code[n].form = "add"
       /\ \/ DeclaredBefore(code, n, code[n].var) # "mind"
          \/ DeclaredBefore(code, n, code[n].arg) # "mental"

\* the action that line n of a well-formed code gives, if any
RECURSIVE ActionsUpTo(_, _)
ActionsUpTo(code, n) ==
    IF n = 0 THEN <<>>
    ELSE ActionsUpTo(code, n - 1) \o
         ( IF code[n].form = "mind"
           THEN <<[type |-> "create_mind", variable |-> code[n].var, arg |-> ""]>>
           ELSE IF code[n].form = "mental"
           THEN <<[type |-> "create_mental", variable |-> code[n].var, arg |-> ""]>>
           ELSE IF code[n].form = "attr"
           THEN <<[type |-> IF DeclaredBefore(code, n, code[n].var) = "mind"
                            THEN "update_mind_attribute"
                            ELSE "update_mental_attribute",
                   variable |-> code[n].var, arg |-> code[n].arg]>>
           ELSE IF code[n].form = "add"
           THEN <<[type |-> "add_mental_to_mind", variable |-> code[n].var,
                   arg |-> code[n].arg]>>
           ELSE <<>> )

\* C29: a parse call throws, returning no actions, exactly when some line
\* assigns an attribute of a name that no earlier line of the same code
\* declares, or adds to a name not declared a Mind or adds a name not
\* declared a Mental (declarations of a previous call do not count); when it
\* succeeds, the actions are those of its lines, in line order, at most one
\* per line and none for a blank line.
C29_DeclarationBeforeUse ==
    parsed.op = "parse" =>
       /\ (\E n \in 1..Len(parsed.code) : UsesUndeclared(parsed.code, n)) =>
             (~parsed.ok /\ parsed.actions = <<>>)
       /\ parsed.ok =>
             /\ \A n \in 1..Len(parsed.code) : ~UsesUndeclared(parsed.code, n)
             /\ parsed.actions = ActionsUpTo(parsed.code, Len(parsed.code))

\* C29's case: a call threw on the use of a name that only the previous call
\* had declared
C29_PreviousDeclarationUnseen ==
    /\ parsed.op = "parse"
    /\ ~parsed.ok
    /\ parsed.code = <<[form |-> "attr", var |-> "a", arg |-> "scale"]>>
    /\ parsed.before["a"] = "mind"

\* C30: after any sequence of incoming messages the minds list of the
\* Playground holds at most one entry per mind id.
C30_UniqueMindIds ==
    \A i, j \in 1..Len(playground.minds) :
       playground.minds[i].id = playground.minds[j].id => i = j

===========================================================================
